---- MODULE Spec2Model ----
(***************************************************************************)
(* A model of gunderscore.js (src/gunderscore.js): the collection          *)
(* functions built on `each`, and the combinators pipeline, curry and      *)
(* memoize.  Every library function is an operator computed the way the    *)
(* code computes it; an action is one call of a library function by a      *)
(* client, with its arguments drawn from small sets.                       *)
(***************************************************************************)
EXTENDS Integers, Sequences, FiniteSets, TLC

VARIABLES
    op,        \* name of the library function called last ("none" at start)
    args,      \* the arguments of that call
    ret,       \* its outcome: [status |-> "returned" | "threw", value |-> ...]
    calls,     \* the calls the library made to the client's function(s), in order
    cache,     \* cache[w]: the private `cache` object of memoize wrapper w
    fcount,    \* fcount[w][k]: times wrapper w invoked `func` for cache key k
    deferred,  \* the closures returned by partial applications of curry wrappers
    globals    \* the host's global variables `key` and `i` (Absent: not defined)

vars == <<op, args, ret, calls, cache, fcount, deferred, globals>>

---------------------------------------------------------------------------
(* Bounds of the model *)

MaxLen == 3        \* longest array passed to a collection function
MaxVal == 2        \* array elements are the numbers 0..MaxVal
MaxArgs == 3       \* most arguments passed to zip / most stages of a pipeline
MaxCalls == 2      \* most invocations of func by one wrapper for one key
MaxArity == 2      \* largest declared arity of a curried function
MaxDeferred == 2   \* most partial applications kept alive at once
MaxObjs == 2       \* longest array of objects given to where

---------------------------------------------------------------------------
(* JavaScript values.  A value is a record [t, v]: t is its type tag, v   *)
(* its payload.                                                            *)

Undefined == [t |-> "undefined", v |-> 0]
Num(n) == [t |-> "number", v |-> n]
PosInfinity == [t |-> "infinity", v |-> 1]
NegInfinity == [t |-> "infinity", v |-> -1]
Bool(b) == [t |-> "boolean", v |-> b]
Str(s) == [t |-> "string", v |-> s]
Arr(s) == [t |-> "array", v |-> s]
\* an object: its own enumerable properties, <<key, value>>, in for-in order
Obj(props) == [t |-> "object", v |-> props]
\* a client function, known by name
Fn(name) == [t |-> "function", v |-> name]
\* the value a client function returned for the arguments a (uninterpreted)
App(name, a) == [t |-> "app", v |-> <<name, a>>]

\* ToBoolean, as `if (x)` and `!x` apply it
Truthy(x) ==
    CASE x.t = "undefined" -> FALSE
      [] x.t = "boolean" -> x.v
      [] x.t = "number" -> x.v # 0
      [] x.t = "string" -> x.v # ""
      [] OTHER -> TRUE

\* the numeric rank of a number or an infinity (for `>`)
IsNumeric(x) == x.t \in {"number", "infinity"}

\* x > y: false whenever an operand converts to NaN (undefined does)
isGreaterThan(x, y) ==
    /\ IsNumeric(x) /\ IsNumeric(y)
    /\ \/ x.t = "number" /\ y.t = "number" /\ x.v > y.v
       \/ x.t = "number" /\ y = NegInfinity
       \/ x = PosInfinity /\ y.t = "number"
       \/ x = PosInfinity /\ y = NegInfinity

isArray(obj) == obj.t = "array"

\* obj instanceof String: false for every value of the model (no String objects)
isString(obj) == FALSE

isIndexed(obj) == isArray(obj) \/ isString(obj)

\* coll[k] for an array coll and a key k: an element for an index in range,
\* undefined for any other key
Index(coll, k) ==
    IF coll.t = "array" /\ k.t = "number" /\ k.v >= 0 /\ k.v < Len(coll.v)
    THEN coll.v[k.v + 1]
    ELSE Undefined

\* the keys for-in enumerates
keys(coll) ==
    IF coll.t = "array"
    THEN [j \in 1..Len(coll.v) |-> Str(ToString(j - 1))]
    ELSE [j \in 1..Len(coll.v) |-> Str(coll.v[j][1])]

len(coll) == Len(coll.v)

isEmpty(coll) == len(coll) = 0

\* Array.prototype.slice.call(args, 0)
toArray(a) == Arr(a)

\* Array.prototype.slice.call(coll, 1)
tail(a) == Arr(SubSeq(a, 2, Len(a)))

Returned(x) == [status |-> "returned", value |-> x]
Threw == [status |-> "threw", value |-> Undefined]

---------------------------------------------------------------------------
(* Function values.  A client function is uninterpreted (Fn) or given by   *)
(* its table (Table, a predicate); the library's own function expressions  *)
(* are values too.                                                         *)

\* a client predicate, known by the value it returns for each element
Table(p) == [t |-> "table", v |-> p]
\* not's `function(i) { return !pred(i); }`
Negation(pred) == [t |-> "negation", v |-> pred]
\* zip's `function(arr) { return arr[i]; }`
ElementAt(i) == [t |-> "elementAt", v |-> i]
\* pipeline's `function(last, curr) { return curr(last); }`
ApplyStage == [t |-> "applyStage", v |-> 0]

\* f(a[1], ..., a[n])
RECURSIVE call(_, _)
call(f, a) ==
    CASE f.t = "function" -> App(f.v, a)
      [] f.t = "table" -> f.v[a[1]]
      [] f.t = "negation" -> Bool(~Truthy(call(f.v, a)))
      [] f.t = "elementAt" -> Index(a[1], Num(f.v))
      [] f.t = "applyStage" -> call(a[2], <<a[1]>>)

---------------------------------------------------------------------------
(* The functions given to each.  One is called as func(item, i) in a       *)
(* state st = [coll, env, threw, log]: the container as it is now, the     *)
(* variables the function closes over, and the arguments of the calls made *)
(* to the client's function so far; it yields the state after the call.    *)

\* what a client's visit does to the container it is visiting
Mutate(kind, coll) ==
    CASE kind = "push" -> Arr(Append(coll.v, Num(9)))
      [] kind = "pop" -> Arr(SubSeq(coll.v, 1, Len(coll.v) - 1))
      [] kind = "shift" -> Arr(SubSeq(coll.v, 2, Len(coll.v)))
      [] OTHER -> coll

\* a client's visit: it records its arguments and may change the container
visitCb(kind, st, item, i) ==
    [st EXCEPT !.env = Append(@, <<item, i>>), !.coll = Mutate(kind, @)]

mapCbIndex(func, st, item, i) ==
    [st EXCEPT !.env = Append(@, call(func, <<i>>)),
               !.log = Append(@, <<i>>)]

\* map: `result.push( func(item) )`
mapCb(func, st, item, i) ==
    [st EXCEPT !.env = Append(@, call(func, <<item>>)),
               !.log = Append(@, <<item>>)]

\* reduce: the first item becomes the seed when none was given, every
\* other item is folded in by func(seed, item, i)
reduceCb(func, st, item, i) ==
    IF st.env.noSeed
    THEN [st EXCEPT !.env.noSeed = FALSE, !.env.seed = item]
    ELSE [st EXCEPT !.env.seed = call(func, <<st.env.seed, item, i>>),
                    !.env.log = Append(@, <<st.env.seed, item, i>>)]

filterKeepStrict(p) == p = Bool(TRUE)

\* `if ( pred(item) )`
filterKeep(p) == Truthy(p)

\* filter: `if ( pred(item) ) result.push(item)`
filterCb(pred, st, item, i) ==
    IF filterKeep(call(pred, <<item>>))
    THEN [st EXCEPT !.env = Append(@, item)]
    ELSE st

\* max: the function names its first parameter `i`, but each passes the
\* item first, so `coll[i]` is coll[item]
maxCb(st, item, i) ==
    IF isGreaterThan(Index(st.coll, item), st.env)
    THEN [st EXCEPT !.env = Index(st.coll, item)]
    ELSE st

\* min: as max, with `!g_.isGreaterThan(coll[i], result)`
minCb(st, item, i) ==
    IF ~isGreaterThan(Index(st.coll, item), st.env)
    THEN [st EXCEPT !.env = Index(st.coll, item)]
    ELSE st

\* obj[key]
Prop(obj, key) ==
    IF \E j \in 1..Len(obj.v) : obj.v[j][1] = key
    THEN obj.v[CHOOSE j \in 1..Len(obj.v) : obj.v[j][1] = key][2]
    ELSE Undefined

\* obj after `obj[key] = val`: a key obj has keeps its place in the
\* enumeration order, a new key comes last
setProp(obj, key, val) ==
    IF \E j \in 1..Len(obj.v) : obj.v[j][1] = key
    THEN Obj([j \in 1..Len(obj.v) |->
                 IF obj.v[j][1] = key THEN <<key, val>> ELSE obj.v[j]])
    ELSE Obj(Append(obj.v, <<key, val>>))

\* dst after `for (prop in src) { dst[prop] = src[prop]; }`, from the k-th
\* property of src on
RECURSIVE copyProps(_, _, _)
copyProps(dst, src, k) ==
    IF k > Len(src.v) THEN dst
    ELSE copyProps(setProp(dst, src.v[k][1], Prop(src, src.v[k][1])), src, k + 1)

\* mixin: `for (prop in obj) { result[prop] = obj[prop]; }`.  env.target
\* says which object `result` refers to: 0 is the object mixin created,
\* j > 0 is the j-th argument, held in st.coll
mixinCb(st, item, i) ==
    IF st.env.target = 0
    THEN [st EXCEPT !.env.result = copyProps(@, item, 1)]
    ELSE [st EXCEPT !.coll.v[st.env.target] = copyProps(@, item, 1)]

\* func(item, i)
\* where's `for (key in crit)` from the k-th key of crit on: `key` is not
\* declared, so each assignment writes the global variable; the loop stops
\* at the first key on which crit and item differ
RECURSIVE whereScan(_, _, _, _)
whereScan(crit, item, key, k) ==
    IF k > Len(crit.v)
    THEN [ok |-> TRUE, key |-> key]
    ELSE IF crit.v[k][2] # Prop(item, crit.v[k][1])
         THEN [ok |-> FALSE, key |-> Str(crit.v[k][1])]
         ELSE whereScan(crit, item, Str(crit.v[k][1]), k + 1)

\* where: filter's function around where's predicate; env.key is the global
\* variable `key`
whereCb(crit, st, item, i) ==
    LET s == whereScan(crit, item, st.env.key, 1)
    IN  [st EXCEPT !.env = [result |-> IF filterKeep(Bool(s.ok))
                                       THEN Append(@.result, item)
                                       ELSE @.result,
                            key |-> s.key]]

invoke(cb, st, item, i) ==
    CASE cb.t = "visit" -> visitCb(cb.v, st, item, i)
      [] cb.t = "map" -> mapCb(cb.v, st, item, i)
      [] cb.t = "reduce" -> reduceCb(cb.v, st, item, i)
      [] cb.t = "filter" -> filterCb(cb.v, st, item, i)
      [] cb.t = "max" -> maxCb(st, item, i)
      [] cb.t = "min" -> minCb(st, item, i)
      [] cb.t = "mixin" -> mixinCb(st, item, i)
      [] cb.t = "where" -> whereCb(cb.v, st, item, i)

---------------------------------------------------------------------------
(* each(coll, func), func closing over variables of initial value env0.    *)
(* The local `var keys` of each shadows the library's keys function, so    *)
(* the mapping branch calls undefined and throws a TypeError before any    *)
(* visit.                                                                  *)

\* the bound of each's loop: `len = coll.length`, read once before the loop
eachLen(coll) == Len(coll.v)

each(coll, cb, env0) ==
    LET start == [coll |-> coll, env |-> env0, threw |-> FALSE, log |-> <<>>]
        run[k \in 0..eachLen(coll)] ==
            IF k = 0 THEN start
            ELSE LET prev == run[k - 1]
                 IN  invoke(cb, prev, Index(prev.coll, Num(k - 1)), Num(k - 1))
    IN  IF isIndexed(coll)
        THEN run[eachLen(coll)]
        ELSE [start EXCEPT !.threw = TRUE]

---------------------------------------------------------------------------
(* The collection functions built on each.  reduce also yields the calls   *)
(* it made to func.                                                        *)

map(coll, func) ==
    LET e == each(coll, [t |-> "map", v |-> func], <<>>)
    IN  IF e.threw THEN Threw ELSE Returned(Arr(e.env))

\* the calls map(coll, func) makes to func
mapCalls(coll, func) == each(coll, [t |-> "map", v |-> func], <<>>).log

\* each and map as the first version of the library has them
\* (src/unnamed/part_000): each calls func(i) for i < collection.length,
\* map's function pushes func(collection[i])
legacyMap(coll, func) ==
    Returned(Arr([k \in 1..Len(coll.v) |->
                     call(func, <<Index(coll, Num(k - 1))>>)]))

legacyMapCalls(coll, func) ==
    [k \in 1..Len(coll.v) |-> <<Index(coll, Num(k - 1))>>]

reduceNoSeedNever(nargs) == FALSE

\* `var noSeed = arguments.length < 3`
reduceNoSeed(nargs) == nargs < 3

\* reduce(coll, func [, seed]) called with nargs arguments
reduce(coll, func, nargs, seed) ==
    LET e == each(coll, [t |-> "reduce", v |-> func],
                  [noSeed |-> reduceNoSeed(nargs), seed |-> seed, log |-> <<>>])
    IN  IF isEmpty(coll) THEN [ret |-> Returned(coll), calls |-> <<>>]
        ELSE IF e.threw THEN [ret |-> Threw, calls |-> <<>>]
        ELSE [ret |-> Returned(e.env.seed), calls |-> e.env.log]

filter(coll, pred) ==
    LET e == each(coll, [t |-> "filter", v |-> pred], <<>>)
    IN  IF e.threw THEN Threw ELSE Returned(Arr(e.env))

not(coll, pred) == filter(coll, Negation(pred))

max(coll) ==
    LET e == each(coll, [t |-> "max", v |-> 0], NegInfinity)
    IN  IF e.threw THEN Threw ELSE Returned(e.env)

min(coll) ==
    LET e == each(coll, [t |-> "min", v |-> 0], PosInfinity)
    IN  IF e.threw THEN Threw ELSE Returned(e.env)

mixinTargetFirst(a) == 1

\* `var result = {}`: result refers to a new object (0), to no argument
mixinTarget(a) == 0

\* mixin(a[1], ..., a[n]).  Beside the value returned: whether it is an
\* object made by this call (fresh), and the arguments as they are after it
mixin(a) ==
    LET e == each(toArray(a), [t |-> "mixin", v |-> 0],
                  [target |-> mixinTarget(a), result |-> Obj(<<>>)])
        target == e.env.target
    IN  [status |-> "returned",
         value |-> IF target \in 1..Len(e.coll.v) THEN e.coll.v[target]
                   ELSE e.env.result,
         fresh |-> target = 0,
         inputs |-> e.coll.v]

zipLenShortest(a) ==
    CHOOSE n \in {Len(a[j].v) : j \in 1..Len(a)} :
        \A j \in 1..Len(a) : n <= Len(a[j].v)

\* `len = args[0].length`
zipLen(a) == Len(a[1].v)

\* zip(a[1], ..., a[N]); args[0] is undefined when N = 0 and reading its
\* length throws
zip(a) ==
    IF Len(a) = 0 THEN Threw
    ELSE Returned(Arr([k \in 1..zipLen(a) |->
                          map(toArray(a), ElementAt(k - 1)).value]))

\* pipeline(seed, f1, ..., fn): a is the arguments object
pipeline(a) ==
    reduce(tail(a), ApplyStage, 3, IF Len(a) = 0 THEN Undefined ELSE a[1])

---------------------------------------------------------------------------
(* memoize.  A wrapper's `cache` is a plain object: reading a key it does  *)
(* not own falls through to Object.prototype.                              *)

Absent == [t |-> "absent", v |-> 0]

\* properties every plain object inherits (those the model's keys can name)
ObjectPrototypeKeys == {"toString"}

\* String(x), as Array.prototype.toString applies it to an element
elemToString(x) ==
    CASE x.t = "number" -> ToString(x.v)
      [] x.t = "string" -> x.v
      [] OTHER -> ""

RECURSIVE join(_)
join(a) ==
    IF Len(a) = 0 THEN ""
    ELSE IF Len(a) = 1 THEN elemToString(a[1])
    ELSE elemToString(a[1]) \o "," \o join(Tail(a))

\* `toArray(arguments).toString()`
memoKey(a) == join(toArray(a).v)

\* cache[key]
cacheGet(c, key) ==
    IF c[key] # Absent THEN c[key]
    ELSE IF key \in ObjectPrototypeKeys THEN Fn("Object.prototype." \o key)
    ELSE Undefined

\* `!cache[args]`: func is invoked
memoMiss(c, key) == ~Truthy(cacheGet(c, key))

---------------------------------------------------------------------------
(* curry *)

curryConcatReversed(captured, rest) == rest \o captured

\* `args.concat( toArray(arguments) )`: a new array
curryConcat(captured, rest) == toArray(captured).v \o toArray(rest).v

\* what `args.concat(...)` leaves in the captured `args`: concat does not
\* change the array it is called on
argsAfterConcat(captured, rest) == captured

\* `func.length === args.length`
curryFull(arity, a) == arity = Len(a)

---------------------------------------------------------------------------
(* The functions that assign to variables they do not declare.  The file    *)
(* is not in strict mode, so such an assignment creates or overwrites a    *)
(* variable of the host's global object.                                   *)

\* no global variable has been defined
NoGlobals == [key |-> Absent, i |-> Absent]

\* the global `key` after a complete `for (key in coll)` that found it as key0
forInKey(coll, key0) ==
    IF Len(keys(coll)) = 0 THEN key0 ELSE keys(coll)[Len(keys(coll))]

\* vals: `result.push( coll[key] )` for every key
vals(coll) ==
    IF coll.t = "array" THEN coll.v ELSE [j \in 1..Len(coll.v) |-> coll.v[j][2]]

\* where(coll, crit) called when the global `key` is key0: the outcome and
\* the global `key` afterwards
where(coll, crit, key0) ==
    LET e == each(coll, [t |-> "where", v |-> crit], [result |-> <<>>, key |-> key0])
    IN  [ret |-> IF e.threw THEN Threw ELSE Returned(Arr(e.env.result)),
         key |-> e.env.key]

\* arguments[j - 1]
argument(a, j) == IF j <= Len(a) THEN a[j] ELSE Undefined

\* `stop = arguments[1] || arguments[0]`
rangeStop(a) == IF Truthy(argument(a, 2)) THEN argument(a, 2) ELSE argument(a, 1)

\* `start = (arguments.length >= 2) ? arguments[0] : 0`
rangeStart(a) == IF Len(a) >= 2 THEN argument(a, 1) ELSE Num(0)

\* `step = arguments[2] || 1`
rangeStep(a) == IF Truthy(argument(a, 3)) THEN argument(a, 3) ELSE Num(1)

\* `for ( ; i < stop; i = i+step) result.push(i)`; i < undefined is false
RECURSIVE rangeLoop(_, _, _, _)
rangeLoop(result, i, stop, step) ==
    IF stop.t = "number" /\ i < stop.v
    THEN rangeLoop(Append(result, Num(i)), i + step.v, stop, step)
    ELSE [result |-> result, i |-> Num(i)]

\* range(a[1], ..., a[n]): no comma follows the declarator of `step`, so
\* `i = start` is a statement of its own that assigns the global `i`, and
\* the loop counts in that global
range(a) ==
    LET r == rangeLoop(<<>>, rangeStart(a).v, rangeStop(a), rangeStep(a))
    IN  [ret |-> Returned(Arr(r.result)), i |-> r.i]

---------------------------------------------------------------------------
(* The inputs the client draws from *)

Elems == {Num(n) : n \in 0..MaxVal}

Arrays == {Arr(s) : s \in UNION {[1..n -> Elems] : n \in 0..MaxLen}}

Objects ==
    {Obj(<<>>), Obj(<< <<"a", Num(1)>> >>),
     Obj(<< <<"a", Num(1)>>, <<"b", Num(2)>> >>),
     Obj(<< <<"b", Num(2)>>, <<"a", Num(1)>> >>)}

\* what the visit callback of an each call does to the container it visits
VisitKinds == {"log", "push", "pop", "shift"}

Seeds == {Num(7), Undefined}

MixinObjects ==
    {Obj(<<>>), Obj(<< <<"a", Num(1)>> >>),
     Obj(<< <<"a", Num(2)>>, <<"b", Num(3)>> >>),
     Obj(<< <<"b", Num(4)>> >>),
     Obj(<< <<"b", Num(5)>>, <<"a", Num(6)>> >>)}

MixinArgs == UNION {[1..n -> MixinObjects] : n \in 0..MaxArgs}

PredRets == {Bool(TRUE), Bool(FALSE), Num(0), Num(1)}

Preds == [Elems -> PredRets]

Stages == {Fn("f1"), Fn("f2")}

StageLists == UNION {[1..n -> Stages] : n \in 0..MaxArgs}

\* the j-th sequence given to zip, of length n: its i-th element names (j, i)
ZipSeq(j, n) == Arr([i \in 1..n |-> Num(10 * j + i - 1)])

ZipArgs ==
    UNION {{[j \in 1..N |-> ZipSeq(j, ls[j])] : ls \in [1..N -> 0..MaxLen]}
           : N \in 0..MaxArgs}

Wrappers == {1, 2}

MemoArgs ==
    {<<Num(1)>>, <<Str("1")>>, <<Num(1), Num(2)>>, <<Str("1,2")>>,
     <<Str("toString")>>}

MemoKeys == {memoKey(a) : a \in MemoArgs}

\* what the memoized function may return
FuncRets == {Num(0), Num(7), Num(8)}

\* n arguments, the i-th being base + i
ArgList(base, n) == [i \in 1..n |-> Num(base + i)]

\* the criteria and the arrays of objects given to where
WhereCrits ==
    {Obj(<<>>), Obj(<< <<"a", Num(1)>> >>), Obj(<< <<"a", Num(2)>> >>),
     Obj(<< <<"a", Num(1)>>, <<"b", Num(2)>> >>)}

WhereColls == {Arr(s) : s \in UNION {[1..n -> Objects] : n \in 0..MaxObjs}}

\* the argument lists given to range
RangeArgs == UNION {[1..n -> Elems] : n \in 0..MaxArgs}

NoArgs == [none |-> TRUE]

---------------------------------------------------------------------------
(* The client: it calls a library function (op = "none" before the call)   *)
(* and then takes the result (Return).                                     *)

Init ==
    /\ op = "none"
    /\ args = NoArgs
    /\ ret = Returned(Undefined)
    /\ calls = <<>>
    /\ cache = [w \in Wrappers |-> [k \in MemoKeys |-> Absent]]
    /\ fcount = [w \in Wrappers |-> [k \in MemoKeys |-> 0]]
    /\ deferred = <<>>
    /\ globals = NoGlobals

Return ==
    /\ op # "none"
    /\ op' = "none"
    /\ args' = NoArgs
    /\ ret' = Returned(Undefined)
    /\ calls' = <<>>
    /\ UNCHANGED <<cache, fcount, deferred, globals>>

\* the outcome of each(coll, visit) for a visit of the given kind
EachCalled(coll, kind) ==
    LET e == each(coll, [t |-> "visit", v |-> kind], <<>>)
    IN  /\ op' = "each"
        /\ args' = [coll |-> coll, kind |-> kind]
        /\ ret' = IF e.threw THEN Threw ELSE Returned(Undefined)
        /\ calls' = e.env

CallEach ==
    /\ op = "none"
    /\ \/ \E coll \in Arrays, kind \in VisitKinds : EachCalled(coll, kind)
       \/ \E coll \in Objects : EachCalled(coll, "log")
    /\ UNCHANGED <<cache, fcount, deferred, globals>>

CallReduce ==
    /\ op = "none"
    /\ \E coll \in Arrays \cup Objects, nargs \in {2, 3}, seed \in Seeds :
        LET r == reduce(coll, Fn("f"), nargs,
                        IF nargs = 3 THEN seed ELSE Undefined)
        IN  /\ nargs = 3 \/ seed = Undefined
            /\ op' = "reduce"
            /\ args' = [coll |-> coll, nargs |-> nargs,
                        seed |-> IF nargs = 3 THEN seed ELSE Undefined]
            /\ ret' = r.ret
            /\ calls' = r.calls
    /\ UNCHANGED <<cache, fcount, deferred, globals>>

CallPipeline ==
    /\ op = "none"
    /\ \E seed \in Seeds, fs \in StageLists :
        LET r == pipeline(<<seed>> \o fs)
        IN  /\ op' = "pipeline"
            /\ args' = [seed |-> seed, fs |-> fs]
            /\ ret' = r.ret
            /\ calls' = r.calls
    /\ UNCHANGED <<cache, fcount, deferred, globals>>

CallMax ==
    /\ op = "none"
    /\ \E coll \in Arrays :
        /\ op' = "max"
        /\ args' = [coll |-> coll]
        /\ ret' = max(coll)
        /\ calls' = <<>>
    /\ UNCHANGED <<cache, fcount, deferred, globals>>

CallMin ==
    /\ op = "none"
    /\ \E coll \in Arrays :
        /\ op' = "min"
        /\ args' = [coll |-> coll]
        /\ ret' = min(coll)
        /\ calls' = <<>>
    /\ UNCHANGED <<cache, fcount, deferred, globals>>

CallZip ==
    /\ op = "none"
    /\ \E a \in ZipArgs :
        /\ op' = "zip"
        /\ args' = [seqs |-> a]
        /\ ret' = zip(a)
        /\ calls' = <<>>
    /\ UNCHANGED <<cache, fcount, deferred, globals>>

CallFilter ==
    /\ op = "none"
    /\ \E coll \in Arrays, p \in Preds :
        /\ op' = "filter"
        /\ args' = [coll |-> coll, pred |-> p]
        /\ ret' = filter(coll, Table(p))
        /\ calls' = <<>>
    /\ UNCHANGED <<cache, fcount, deferred, globals>>

CallNot ==
    /\ op = "none"
    /\ \E coll \in Arrays, p \in Preds :
        /\ op' = "not"
        /\ args' = [coll |-> coll, pred |-> p]
        /\ ret' = not(coll, Table(p))
        /\ calls' = <<>>
    /\ UNCHANGED <<cache, fcount, deferred, globals>>

CallMap ==
    /\ op = "none"
    /\ \E coll \in Arrays \cup Objects :
        /\ op' = "map"
        /\ args' = [coll |-> coll, func |-> Fn("f")]
        /\ ret' = map(coll, Fn("f"))
        /\ calls' = mapCalls(coll, Fn("f"))
    /\ UNCHANGED <<cache, fcount, deferred, globals>>

CallLegacyMap ==
    /\ op = "none"
    /\ \E coll \in Arrays :
        /\ op' = "legacyMap"
        /\ args' = [coll |-> coll, func |-> Fn("f")]
        /\ ret' = legacyMap(coll, Fn("f"))
        /\ calls' = legacyMapCalls(coll, Fn("f"))
    /\ UNCHANGED <<cache, fcount, deferred, globals>>

CallMixin ==
    /\ op = "none"
    /\ \E a \in MixinArgs :
        /\ op' = "mixin"
        /\ args' = [objs |-> a]
        /\ ret' = mixin(a)
        /\ calls' = <<>>
    /\ UNCHANGED <<cache, fcount, deferred, globals>>

\* w(a...) for the wrapper w returned by a memoize call
MemoCall ==
    /\ op = "none"
    /\ \E w \in Wrappers, a \in MemoArgs :
        LET key == memoKey(a)
        IN  /\ op' = "memo"
            /\ args' = [w |-> w, a |-> a, key |-> key]
            /\ IF memoMiss(cache[w], key)
               THEN /\ fcount[w][key] < MaxCalls
                    /\ \E r \in FuncRets :
                        LET c2 == [cache[w] EXCEPT ![key] = r]
                        IN  /\ cache' = [cache EXCEPT ![w] = c2]
                            /\ ret' = Returned(cacheGet(c2, key))
                    /\ fcount' = [fcount EXCEPT ![w][key] = @ + 1]
                    /\ calls' = << <<w, a>> >>
               ELSE /\ ret' = Returned(cacheGet(cache[w], key))
                    /\ calls' = <<>>
                    /\ UNCHANGED <<cache, fcount, globals>>
    /\ UNCHANGED <<deferred, globals>>

\* w(a...) for w = curry(f), f of declared arity `arity`
CurryCall ==
    /\ op = "none"
    /\ \E arity \in 0..MaxArity, n \in 0..(MaxArity + 1) :
        LET a == ArgList(0, n)
        IN  /\ op' = "curry"
            /\ args' = [arity |-> arity, a |-> a]
            /\ IF curryFull(arity, toArray(a).v)
               THEN /\ calls' = <<a>>
                    /\ ret' = Returned(App("f", a))
                    /\ UNCHANGED deferred
               ELSE /\ Len(deferred) < MaxDeferred
                    /\ deferred' = Append(deferred, [arity |-> arity, args |-> toArray(a).v])
                    /\ calls' = <<>>
                    /\ ret' = Returned([t |-> "closure", v |-> Len(deferred) + 1])
    /\ UNCHANGED <<cache, fcount, globals>>

\* d(rest...) for a closure d returned by a partial application
DeferredCall ==
    /\ op = "none"
    /\ \E d \in 1..Len(deferred), m \in 0..(MaxArity + 1) :
        LET rest == ArgList(10, m)
            allArgs == curryConcat(deferred[d].args, rest)
        IN  /\ op' = "deferred"
            /\ args' = [d |-> d, rest |-> rest]
            /\ calls' = <<allArgs>>
            /\ ret' = Returned(App("f", allArgs))
            /\ deferred' = [deferred EXCEPT ![d].args = argsAfterConcat(@, rest)]
    /\ UNCHANGED <<cache, fcount, globals>>

CallKeys ==
    /\ op = "none"
    /\ \E coll \in Objects \cup Arrays :
        /\ op' = "keys"
        /\ args' = [coll |-> coll]
        /\ ret' = Returned(Arr(keys(coll)))
        /\ globals' = [globals EXCEPT !.key = forInKey(coll, @)]
    /\ calls' = <<>>
    /\ UNCHANGED <<cache, fcount, deferred>>

CallVals ==
    /\ op = "none"
    /\ \E coll \in Objects \cup Arrays :
        /\ op' = "vals"
        /\ args' = [coll |-> coll]
        /\ ret' = Returned(Arr(vals(coll)))
        /\ globals' = [globals EXCEPT !.key = forInKey(coll, @)]
    /\ calls' = <<>>
    /\ UNCHANGED <<cache, fcount, deferred>>

CallWhere ==
    /\ op = "none"
    /\ \E coll \in WhereColls, crit \in WhereCrits :
        /\ op' = "where"
        /\ args' = [coll |-> coll, crit |-> crit]
        /\ ret' = where(coll, crit, globals.key).ret
        /\ globals' = [globals EXCEPT !.key = where(coll, crit, @).key]
    /\ calls' = <<>>
    /\ UNCHANGED <<cache, fcount, deferred>>

CallRange ==
    /\ op = "none"
    /\ \E a \in RangeArgs :
        /\ op' = "range"
        /\ args' = [a |-> a]
        /\ ret' = range(a).ret
        /\ globals' = [globals EXCEPT !.i = range(a).i]
    /\ calls' = <<>>
    /\ UNCHANGED <<cache, fcount, deferred>>

Next ==
    \/ CallEach \/ CallReduce \/ CallPipeline \/ CallMax \/ CallMin
    \/ CallZip \/ CallFilter \/ CallNot \/ CallMap \/ CallLegacyMap
    \/ CallMixin \/ Return

Spec == Init /\ [][Next]_vars

NextMemo == MemoCall \/ Return

SpecMemo == Init /\ [][NextMemo]_vars

NextCurry == CurryCall \/ DeferredCall \/ Return

SpecCurry == Init /\ [][NextCurry]_vars

NextGlobals ==
    \/ CallEach \/ CallKeys \/ CallVals \/ CallWhere \/ CallRange \/ Return

SpecGlobals == Init /\ [][NextGlobals]_vars

---------------------------------------------------------------------------
(* What the claims compare the code against *)

\* the left fold of s[k..] from acc by the client's f(acc, element, index)
RECURSIVE FoldFrom(_, _, _)
FoldFrom(acc, s, k) ==
    IF k > Len(s) THEN acc
    ELSE FoldFrom(App("f", <<acc, s[k], Num(k - 1)>>), s, k + 1)

\* fs[n](...fs[2](fs[1](acc))...) for the stages fs[k..]
RECURSIVE ComposeFrom(_, _, _)
ComposeFrom(acc, fs, k) ==
    IF k > Len(fs) THEN acc
    ELSE ComposeFrom(App(fs[k].v, <<acc>>), fs, k + 1)

\* how many of the first i elements of c the predicate p accepts
Accepted(c, p, i) == Cardinality({j \in 1..i : Truthy(p[c[j]])})

---------------------------------------------------------------------------
(* Claims about the collection functions, under Spec *)

\* C1: each over an associative container with keys k1..kn completes
\* normally and calls visit exactly n times, the j-th call with
\* (c[kj], kj): the value first, the key itself second.
C1_EachVisitsEveryKey ==
    (op = "each" /\ args.coll.t = "object") =>
        LET props == args.coll.v
        IN  /\ ret.status = "returned"
            /\ calls = [j \in 1..Len(props) |->
                            <<props[j][2], Str(props[j][1])>>]

\* C2: reduce(c, f, seed) with an explicit seed returns the left fold of
\* all of c from seed, f being called once per element (Len(c) times).
C2_ReduceSeedFold ==
    (op = "reduce" /\ args.nargs = 3 /\ args.coll.t = "array") =>
        /\ ret = Returned(FoldFrom(args.seed, args.coll.v, 1))
        /\ Len(calls) = Len(args.coll.v)

\* C3: pipeline(seed, f1, ..., fn), n >= 0, returns fn(...f1(seed)...),
\* calls each stage once, left to right, and equals
\* reduce([f1..fn], (acc, f) => f(acc), seed).
C3_PipelineComposes ==
    op = "pipeline" =>
        /\ ret = Returned(ComposeFrom(args.seed, args.fs, 1))
        /\ Len(calls) = Len(args.fs)
        /\ \A k \in 1..Len(calls) : calls[k][2] = args.fs[k]
        /\ ret = reduce(Arr(args.fs), ApplyStage, 3, args.seed).ret

\* C5: for a non-empty sequence of numbers c, max(c) is an element of c
\* that is >= every element, and min(c) an element that is <= every element.
C5_MaxMinAreExtrema ==
    (op \in {"max", "min"} /\ Len(args.coll.v) > 0) =>
        LET c == args.coll.v
        IN  /\ ret.status = "returned"
            /\ \E k \in 1..Len(c) : ret.value = c[k]
            /\ ret.value.t = "number"
            /\ \A k \in 1..Len(c) :
                  IF op = "max" THEN ret.value.v >= c[k].v
                  ELSE ret.value.v <= c[k].v

\* C6: each has snapshot semantics: the indices (indexed mode) or keys
\* (mapping mode) to visit are fixed before the first visit, so a visit
\* callback that adds or removes entries of c during the traversal changes
\* neither the number of visits nor which elements are visited.
C6_EachSnapshot ==
    op = "each" =>
        LET c == args.coll.v
        IN  /\ ret.status = "returned"
            /\ Len(calls) = Len(c)
            /\ args.coll.t = "array" =>
                  calls = [k \in 1..Len(c) |-> <<c[k], Num(k - 1)>>]

\* C8: reduce(c, f) without a seed on a non-empty sequence takes c[0] as
\* the first accumulator without calling f on it, then calls f exactly
\* n-1 times as f(accumulator, element, index), index running 1..n-1; for
\* a one-element sequence the result is c[0].
C8_ReduceNoSeed ==
    (op = "reduce" /\ args.nargs = 2 /\ args.coll.t = "array"
        /\ Len(args.coll.v) > 0) =>
        LET c == args.coll.v
        IN  /\ ret = Returned(FoldFrom(c[1], c, 2))
            /\ Len(calls) = Len(c) - 1
            /\ \A k \in 1..Len(calls) :
                  calls[k] = <<FoldFrom(c[1], SubSeq(c, 1, k), 2), c[k + 1], Num(k)>>
            /\ Len(c) = 1 => ret.value = c[1]

C8_Witness ==
    /\ op = "reduce" /\ args.nargs = 2 /\ args.coll.t = "array"
    /\ Len(args.coll.v) = 3 /\ Len(calls) = 2
    /\ args.coll.v[1] # args.coll.v[2]

\* C9: zip(s1, ..., sN), N >= 1, returns a sequence as long as s1 (the
\* first argument, not the shortest) whose i-th entry is the N-tuple of
\* the sj[i], undefined where sj is shorter than s1.
C9_ZipFirstLength ==
    (op = "zip" /\ Len(args.seqs) >= 1) =>
        LET a == args.seqs
            N == Len(a)
        IN  /\ ret.status = "returned"
            /\ ret.value.t = "array"
            /\ Len(ret.value.v) = Len(a[1].v)
            /\ \A i \in 1..Len(ret.value.v) :
                  /\ ret.value.v[i].t = "array"
                  /\ Len(ret.value.v[i].v) = N
                  /\ \A j \in 1..N :
                        ret.value.v[i].v[j] =
                            IF i <= Len(a[j].v) THEN a[j].v[i] ELSE Undefined

C9_Witness ==
    /\ op = "zip" /\ Len(args.seqs) >= 3
    /\ Len(args.seqs[2].v) < Len(args.seqs[1].v)
    /\ Len(args.seqs[3].v) > Len(args.seqs[1].v)
    /\ Len(ret.value.v) = Len(args.seqs[1].v)
    /\ Len(ret.value.v) >= 2

\* C10: filter(c, pred) and not(c, pred) partition c: every position of c
\* gives its element to exactly one of the two results (filter's when pred
\* is true, not's when it is false), both keep the order of c, and their
\* lengths add up to the length of c.
C10_FilterNotPartition ==
    op \in {"filter", "not"} =>
        LET c == args.coll.v
            p == args.pred
            f == IF op = "filter" THEN ret.value.v
                 ELSE filter(args.coll, Table(p)).value.v
            n == IF op = "not" THEN ret.value.v
                 ELSE not(args.coll, Table(p)).value.v
        IN  /\ ret.status = "returned"
            /\ Len(f) + Len(n) = Len(c)
            /\ \A i \in 1..Len(c) :
                  LET t == Accepted(c, p, i)
                  IN  IF Truthy(p[c[i]])
                      THEN t <= Len(f) /\ f[t] = c[i]
                      ELSE i - t <= Len(n) /\ n[i - t] = c[i]

C10_Witness ==
    /\ op \in {"filter", "not"}
    /\ Len(args.coll.v) = 3
    /\ Len(ret.value.v) = 2
    /\ \E x \in Elems : args.pred[x] = Num(1)
    /\ \E x \in Elems : args.pred[x] = Num(0)

\* C11: for every sequence c and pure f, map(c, f) returns a new sequence
\* as long as c whose i-th entry is f(c[i]), f being called exactly once
\* per element, in index order.
C11_MapAppliesToEach ==
    (op \in {"map", "legacyMap"} /\ args.coll.t = "array") =>
        LET c == args.coll.v
        IN  /\ ret.status = "returned"
            /\ ret.value.t = "array"
            /\ Len(ret.value.v) = Len(c)
            /\ \A k \in 1..Len(ret.value.v) :
                  ret.value.v[k] = App("f", <<c[k]>>)
            /\ calls = [k \in 1..Len(c) |-> <<c[k]>>]

C11_Witness ==
    /\ op = "map"
    /\ Len(args.coll.v) = 3
    /\ args.coll.v[1] = Num(2) /\ args.coll.v[2] = Num(0)
    /\ Len(ret.value.v) = 3
    /\ Len(calls) = 3

\* the keys of the object o
KeySet(o) == {o.v[j][1] : j \in 1..Len(o.v)}

\* the object o holds value x at key k
Holds(o, k, x) == \E j \in 1..Len(o.v) : o.v[j] = <<k, x>>

\* C12: mixin(o1, ..., on) returns a new associative container whose key
\* set is the union of the inputs' key sets and whose value at each key is
\* that of the last input that has the key; the result is distinct from
\* every input, and every input has the same keys and values after the
\* call as before it.
C12_MixinUnionLastWins ==
    op = "mixin" =>
        LET a == args.objs
            r == ret.value
        IN  /\ ret.status = "returned"
            /\ r.t = "object"
            /\ KeySet(r) = UNION {KeySet(a[j]) : j \in 1..Len(a)}
            /\ Cardinality(KeySet(r)) = Len(r.v)
            /\ \A k \in KeySet(r) :
                  LET last == CHOOSE j \in 1..Len(a) :
                                  /\ k \in KeySet(a[j])
                                  /\ \A h \in (j + 1)..Len(a) : k \notin KeySet(a[h])
                  IN  \E x \in {a[last].v[j][2] : j \in 1..Len(a[last].v)} :
                          Holds(a[last], k, x) /\ Holds(r, k, x)
            /\ ret.fresh
            /\ ret.inputs = a

C12_Witness ==
    /\ op = "mixin"
    /\ args.objs = << Obj(<< <<"a", Num(1)>> >>),
                      Obj(<< <<"a", Num(2)>>, <<"b", Num(3)>> >>) >>
    /\ ret.value = Obj(<< <<"a", Num(2)>>, <<"b", Num(3)>> >>)
    /\ ret.fresh
    /\ ret.inputs = args.objs

---------------------------------------------------------------------------
(* Claims about memoize, under SpecMemo *)

\* C4: over any sequence of calls to the wrapper returned by one memoize(f)
\* call, f is invoked at most once per distinct stringified-argument key,
\* whatever value f returned for that key.
C4_MemoizeCallsOncePerKey ==
    \A w \in Wrappers, k \in MemoKeys : fcount[w][k] <= 1

\* C13: each memoize wrapper's cache only grows: a result stored under a
\* key is never removed and never replaced by a different value, whatever
\* f returns later.
C13_CacheOnlyGrows ==
    [][\A w \in Wrappers, k \in MemoKeys :
          cache[w][k] # Absent => cache'[w][k] = cache[w][k]]_vars

---------------------------------------------------------------------------
(* Claims about curry, under SpecCurry *)

\* C7: for f of declared arity k and w = curry(f): w called with exactly k
\* arguments invokes f once with them and returns f's result; w called with
\* a prefix p of fewer than k arguments does not invoke f and returns a new
\* function d; every call d(r...) invokes f with p followed by r, and the
\* captured prefix p is never changed.
C7_CurryApplies ==
    /\ (op = "curry" /\ Len(args.a) = args.arity) =>
          /\ calls = <<args.a>>
          /\ ret = Returned(App("f", args.a))
    /\ (op = "curry" /\ Len(args.a) < args.arity) =>
          /\ calls = <<>>
          /\ ret.value.t = "closure"
          /\ ret.value.v = Len(deferred)
          /\ deferred[ret.value.v] = [arity |-> args.arity, args |-> args.a]
    /\ op = "deferred" =>
          LET p == ArgList(0, Len(deferred[args.d].args))
          IN  /\ calls = <<p \o args.rest>>
              /\ ret = Returned(App("f", p \o args.rest))
    /\ \A d \in 1..Len(deferred) :
          deferred[d].args = ArgList(0, Len(deferred[d].args))

C7_Witness ==
    /\ op = "deferred"
    /\ Len(deferred[args.d].args) = 1
    /\ deferred[args.d].arity = 2
    /\ Len(args.rest) = 1
    /\ calls = << <<Num(1), Num(11)>> >>

---------------------------------------------------------------------------
(* Claims about the host's global variables, under SpecGlobals *)

\* C14: no call of each, keys, vals, where or range leaves state behind:
\* after any sequence of calls the host's global variables are as they were
\* before the sequence (here: none is defined).
C14_NoStateLeftBehind == globals = NoGlobals

====
